---------------------------- MODULE Spec2Model ----------------------------
(***************************************************************************)
(* LolliPop: the deconvolution run (lollipop/cli/deconvolute.py) and the   *)
(* tally preprocessing (lollipop/preprocessors.py) as a state machine.     *)
(*                                                                         *)
(* A data frame is [cols |-> set of column names, rows |-> sequence of     *)
(* rows], a row being a function from the column names to cells.  Cells of *)
(* the text columns (sample, location, base, the variant tag columns as    *)
(* read) are strings, "NaN" being the missing cell; dates are day numbers, *)
(* frac is a number of FracDen-ths.  An optional value (Python's None or a *)
(* value) is a sequence of length 0 or 1.                                  *)
(***************************************************************************)
EXTENDS Integers, Sequences, FiniteSets, TLC

(* ------------------------------ bounds -------------------------------- *)
\* rows of an input table
MaxRows == 2
\* the bootstrap count of a bootstrapping run
MaxBootstrap == 2
\* frac is k/FracDen, k in 0..FracDen
FracDen == 4

(* --------------------------- values and cells ------------------------- *)
None == <<>>
Some(x) == <<x>>
IsNone(o) == o = <<>>
Get(o) == o[1]

\* the missing cell of a text column; of a date or frac column
NaN == "NaN"
NaT == -1

\* day numbers count from 1999-12-01, the dummy date of the no_date mode;
\* 2020-01-01, the default key of the single window, is day 7336
DummyDay == 0
DefaultStart == 7336

Range(s) == {s[i] : i \in 1..Len(s)}

RECURSIVE SumOver(_, _)
SumOver(S, f) ==
    IF S = {} THEN 0
    ELSE LET x == CHOOSE y \in S : TRUE IN f[x] + SumOver(S \ {x}, f)

\* str(n) of a non-negative integer
Digit(n) == CASE n = 0 -> "0" [] n = 1 -> "1" [] n = 2 -> "2" [] n = 3 -> "3"
              [] n = 4 -> "4" [] n = 5 -> "5" [] n = 6 -> "6" [] n = 7 -> "7"
              [] n = 8 -> "8" [] n = 9 -> "9"
RECURSIVE Str(_)
Str(n) == IF n < 10 THEN Digit(n) ELSE Str(n \div 10) \o Digit(n % 10)

\* the columns that are not variant tag columns
MetaCols == {"sample", "location", "location_code", "plantname", "date", "pos",
             "base", "frac", "mutations", "undetermined", "resample_value"}
\* the columns holding numbers from the start (dates, positions, fractions)
NumCols == {"date", "pos", "frac", "undetermined", "resample_value"}

\* the tag words general_preprocess recodes to 1
TagWords == {"extra", "mut", "shared", "revert", "subset"}

(* ------------------------- DataPreprocesser --------------------------- *)
\* df[mask]: the rows of the frame whose entry of the boolean mask is true
FilterRows(df, mask) ==
    LET Kept(ix) == mask[ix]
        index == SelectSeq([ix \in 1..Len(df.rows) |-> ix], Kept)
    IN  [df EXCEPT !.rows = [j \in 1..Len(index) |-> df.rows[index[j]]]]

\* df.rename(columns=variants_pangolin)
NewName(c, variants_pangolin) ==
    IF c \in DOMAIN variants_pangolin THEN variants_pangolin[c] ELSE c
OldName(n, cols, variants_pangolin) ==
    CHOOSE c \in cols : NewName(c, variants_pangolin) = n
Rename(df, variants_pangolin) ==
    LET newcols == {NewName(c, variants_pangolin) : c \in df.cols}
    IN  [cols |-> newcols,
         rows |-> [i \in 1..Len(df.rows) |->
                    [n \in newcols |->
                       df.rows[i][OldName(n, df.cols, variants_pangolin)]]]]

\* df.drop(variants_not_reported, axis=1, errors="ignore")
DropCols(df, names) ==
    LET newcols == df.cols \ names
    IN  [cols |-> newcols,
         rows |-> [i \in 1..Len(df.rows) |-> [n \in newcols |-> df.rows[i][n]]]]

\* df[c] = series: column c set row by row to the entries of the series
SetCol(df, c, series) ==
    LET newcols == df.cols \cup {c}
    IN  [cols |-> newcols,
         rows |-> [i \in 1..Len(df.rows) |->
                    [n \in newcols |->
                       IF n = c THEN series[i] ELSE df.rows[i][n]]]]

\* df.dropna(subset=["frac", "date"] if not no_date else ["frac"])
DropNa(df, no_date) ==
    LET Keep(r) == r["frac"] # NaT /\ (no_date \/ r["date"] # NaT)
    IN  FilterRows(df, [ix \in 1..Len(df.rows) |-> Keep(df.rows[ix])])

\* df["mutations"] = df["pos"].astype(str) + df["base"]
MakeSignature(df) ==
    IF "base" \in df.cols /\ "pos" \in df.cols
    THEN LET Sig(r) == Str(r["pos"]) \o r["base"] IN SetCol(df, "mutations", [ix \in 1..Len(df.rows) |-> Sig(df.rows[ix])])
    ELSE df

\* the [start_date, end_date) filter
DateFilter(df, start_date, end_date, no_date) ==
    IF no_date THEN df
    ELSE LET Keep(r) == /\ (IsNone(start_date) \/ r["date"] >= Get(start_date))
                        /\ (IsNone(end_date) \/ r["date"] < Get(end_date))
         IN  FilterRows(df, [ix \in 1..Len(df.rows) |-> Keep(df.rows[ix])])

\* df[~(df["base"] == "-")]
RemoveDeletions(df, remove_deletions) ==
    IF remove_deletions /\ "base" \in df.cols
    THEN LET Keep(r) == r["base"] # "-" IN FilterRows(df, [ix \in 1..Len(df.rows) |-> Keep(df.rows[ix])])
    ELSE df

\* for v in variants_list: drop the rows whose v is in to_drop, column by column
RECURSIVE DropTagged(_, _, _)
DropTagged(df, variants_list, to_drop) ==
    IF variants_list = <<>> THEN df
    ELSE LET v == Head(variants_list)
             Keep(r) == r[v] \notin to_drop
             df1 == IF v \in df.cols THEN FilterRows(df, [ix \in 1..Len(df.rows) |-> Keep(df.rows[ix])]) ELSE df
         IN  DropTagged(df1, Tail(variants_list), to_drop)

\* df.replace(np.nan, 0).replace(["extra","mut","shared","revert","subset"], 1):
\* every cell of every column is replaced; the cells of the tag columns become
\* the numbers 0 and 1, a replaced cell of a text column reads "0" or "1"
RecodeCell(c, x) ==
    IF c \in NumCols THEN x
    ELSE IF c \in MetaCols
         THEN (IF x = NaN THEN "0" ELSE IF x \in TagWords THEN "1" ELSE x)
         ELSE (IF x = NaN THEN 0 ELSE IF x \in TagWords THEN 1 ELSE x)
Recode(df) ==
    [df EXCEPT !.rows = [i \in 1..Len(df.rows) |->
                           [c \in df.cols |-> RecodeCell(c, df.rows[i][c])]]]

\* only the rows with no indicator set, those with every indicator set kept
UninformativeAbsentOnly(r, variants_columns) == SumOver(variants_columns, r) = 0
\* the rows whose indicator sum over variants_columns is 0 or len(variants_columns)
Uninformative(r, variants_columns) ==
    SumOver(variants_columns, r) \in {0, Cardinality(variants_columns)}
RemoveUninformative(df, variants_columns) ==
    LET Keep(r) == ~Uninformative(r, variants_columns) IN FilterRows(df, [ix \in 1..Len(df.rows) |-> Keep(df.rows[ix])])

\* make_complement that forgets to turn frac into 1 - frac
make_complement_frac_kept(df_tally, variants_list) ==
    [df_tally EXCEPT !.rows =
        [i \in 1..Len(df_tally.rows) |->
            [c \in df_tally.cols |->
                LET x == df_tally.rows[i][c]
                IN  CASE c = "mutations" -> "-" \o x
                      [] c \in variants_list -> 1 - x
                      [] c = "undetermined" -> 1
                      [] OTHER -> x]]]

\* DataPreprocesser.make_complement
make_complement(df_tally, variants_list) ==
    [df_tally EXCEPT !.rows =
        [i \in 1..Len(df_tally.rows) |->
            [c \in df_tally.cols |->
                LET x == df_tally.rows[i][c]
                IN  CASE c = "mutations" -> "-" \o x
                      [] c = "frac" -> FracDen - x
                      [] c \in variants_list -> 1 - x
                      [] c = "undetermined" -> 1
                      [] OTHER -> x]]]

\* pd.concat([a, b])
Concat(a, b) == [cols |-> a.cols \cup b.cols, rows |-> a.rows \o b.rows]

\* the assertion on variants_pangolin: no two source names share a canonical name
Injective(variants_pangolin) ==
    \A a, b \in DOMAIN variants_pangolin :
        variants_pangolin[a] = variants_pangolin[b] => a = b

\* DataPreprocesser.general_preprocess: [ok, df]; ok is FALSE when the call
\* raises (duplicate canonical names, or a column it needs is not there)
general_preprocess(df_tally, variants_list, variants_pangolin, variants_not_reported, to_drop, start_date, end_date, no_date, remove_deletions) ==
    IF ~Injective(variants_pangolin) THEN [ok |-> FALSE, df |-> df_tally]
    ELSE
    LET d1 == DropCols(Rename(df_tally, variants_pangolin), variants_not_reported)
    IN  IF ~({"frac", "date"} \subseteq d1.cols) THEN [ok |-> FALSE, df |-> d1]
        ELSE
        LET d2 == MakeSignature(DropNa(d1, no_date))
            d3 == RemoveDeletions(DateFilter(d2, start_date, end_date, no_date),
                                  remove_deletions)
            d4 == Recode(DropTagged(d3, variants_list, to_drop))
            variants_columns == Range(variants_list) \cap d4.cols
            d5 == RemoveUninformative(d4, variants_columns)
            Zero(r) == 0
            d6 == SetCol(d5, "undetermined", [ix \in 1..Len(d5.rows) |-> Zero(d5.rows[ix])])
        IN  IF "mutations" \notin d6.cols THEN [ok |-> FALSE, df |-> d6]
            ELSE [ok |-> TRUE,
                  df |-> Concat(d6, make_complement(d6, variants_columns))]


(* ------------------------ external collaborators ---------------------- *)
\* the random generator behind np.random: a linear congruential stand-in
RandMod == 64
NextRandom(x) == (5 * x + 3) % RandMod
\* the number drawn at state x: its high bits
Drawn(x) == x \div 8

\* n successive draws from state x: <<indices in 1..n, state after>>
RECURSIVE Choice(_, _, _)
Choice(x, n, k) ==
    IF k = 0 THEN [picks |-> <<>>, state |-> x]
    ELSE LET y == NextRandom(x)
             rest == Choice(y, n, k - 1)
         IN  [picks |-> <<(Drawn(y) % n) + 1>> \o rest.picks, state |-> rest.state]

\* df.mutations.unique(): the distinct signatures in order of first appearance
RECURSIVE Unique(_)
Unique(s) ==
    IF s = <<>> THEN <<>>
    ELSE LET init == Unique(SubSeq(s, 1, Len(s) - 1))
             x == s[Len(s)]
         IN  IF x \in Range(init) THEN init ELSE Append(init, x)
Signatures(df) == Unique([i \in 1..Len(df.rows) |-> df.rows[i]["mutations"]])

\* ll.resample_mutations(df, mutations): draws len(mutations) signatures with
\* replacement; keeps the rows of every drawn signature, whole, with the number
\* of times it was drawn as resample_value
CountOf(picks, j) == Cardinality({i \in 1..Len(picks) : picks[i] = j})
IndexOf(s, x) == CHOOSE i \in 1..Len(s) : s[i] = x
resample_mutations(df, mutations, picks) ==
    LET Weight(r) == CountOf(picks, IndexOf(mutations, r["mutations"]))
        Kept(r) == Weight(r) > 0
        kept == FilterRows(df, [ix \in 1..Len(df.rows) |-> Kept(df.rows[ix])])
    IN  SetCol(kept, "resample_value",
               [ix \in 1..Len(kept.rows) |-> Weight(kept.rows[ix])])


(* ------------------------------ the run -------------------------------- *)
VARIABLES
    cfg,             \* the run's inputs: configuration documents, options, tally
    pc,              \* the place of the run in deconvolute(), of the command line
                     \* tool or of the script src/deconvolute.py
    df_tally,        \* the tally frame as loaded, then stamped
    no_loc, no_date, \* the flags, as the run switches them
    locations_list,  \* None or the list of locations (cities_list in the script)
    variants_list,   \* None or the list of variants
    var_dates,       \* the schedule: a sequence of [key, vars], in file order
    date_intervals,  \* the (mindate, maxdate) pairs
    preproc,         \* the preprocessed frame
    bootstrap, have_confint,
    li, b, wi,       \* the loop: location (city), replicate, interval
    temp_dfb,        \* the current location's (resampled) frame
    rng,             \* the state of the random generator
    draws,           \* the draws made for each (location, replicate)
    twin,            \* a second run on the same inputs: its list, generator, draws
    calls,           \* the regression engine's invocations
    all_deconv,      \* the result collection
    deconv_df_agg,   \* None or the aggregated long-form table
    output,          \* None or the exported table
    error            \* what ended the run, and the names it reports

vars == <<cfg, pc, df_tally, no_loc, no_date, locations_list, variants_list,
          var_dates, date_intervals, preproc, bootstrap, have_confint, li, b, wi,
          temp_dfb, rng, draws, twin, calls, all_deconv, deconv_df_agg, output,
          error>>

EmptyFrame == [cols |-> {}, rows |-> <<>>]

\* list(set(...)): every order it may give, string hashing differing from run
\* to run
Orders(S) == {s \in [1..Cardinality(S) -> S] : Range(s) = S}

\* line 142: the --loc option wins over the configuration's locations_list
LocationsOption(loc, conf_locations) ==
    IF Len(loc) > 0 THEN Some(loc) ELSE conf_locations

\* df_tally["location"].unique()
LocationValues(df) == {df.rows[i]["location"] : i \in 1..Len(df.rows)}
\* lines 188 and 203: the locations observed, without empty and missing cells
\* read_csv gives a column with rows and no cell filled the type float64: its
\* missing cells are then not the object np.nan, and the set difference of
\* lines 188 and 203 keeps one. read: the column is the one read from the input,
\* not the copy of location_code (which is text)
NumericMissing(df, read) ==
    /\ read /\ Len(df.rows) > 0
    /\ \A i \in 1..Len(df.rows) : df.rows[i]["location"] = NaN
ObservedLocations(df, read) ==
    IF NumericMissing(df, read) THEN {NaN} ELSE LocationValues(df) \ {"", NaN}
\* the list taken as it is, its entries never looked up in the data
BadLocationsUnchecked(locs, df) == {}
\* line 206
BadLocations(locs, df) == Range(locs) \ LocationValues(df)

\* lines 166-184: what the run does when the input has no location column
LocationFallback(df, nl, locs) ==
    IF nl \/ "location" \in df.cols THEN "keep"
    ELSE IF "location_code" \in df.cols THEN "code"
    ELSE IF IsNone(locs) THEN "raise"        \* len(None)
    ELSE IF Len(Get(locs)) = 1 THEN "stamp"
    ELSE "exit"

\* no_loc giving way to a list of locations
NoLocListUnlessGiven(nl, locs) ==
    IF nl /\ locs = <<>> THEN <<<<"location">>>> ELSE locs
\* lines 186-199: under no_loc every row is given the one location "location",
\* which replaces any list of locations
NoLocList(nl, locs) == IF nl THEN Some(<<"location">>) ELSE locs

\* line 213
NoDates(df) ==
    "date" \notin df.cols \/ \A i \in 1..Len(df.rows) : df.rows[i]["date"] = NaT

\* lines 224-235: each sample's dummy date, by order of first appearance
Samples(df) == Unique([i \in 1..Len(df.rows) |-> df.rows[i]["sample"]])
DummyDate(df, r) == DummyDay + (IndexOf(Samples(df), r["sample"]) - 1)

\* lines 271-278: the key of the one window of a run without schedule: the dummy
\* day, or conf_yaml.get("start_date", "2020-01-01"), which is None when the
\* document holds start_date with no value
StartKey(nd, start_date_null, start_date) ==
    IF nd THEN DummyDay
    ELSE IF start_date_null THEN NaT
    ELSE IF IsNone(start_date) THEN DefaultStart
    ELSE Get(start_date)

\* lines 246-248
AllVarDates(vd) == UNION {Range(vd[i].vars) : i \in 1..Len(vd)}

\* lines 285-286
DateIntervals(vd) ==
    [i \in 1..Len(vd) |->
        [mindate |-> vd[i].key,
         maxdate |-> IF i < Len(vd) THEN Some(vd[i + 1].key) ELSE None]]
\* the assertion with its comparison turned around
OutOfOrderTurned(intervals, nd) ==
    ~nd /\ \E i \in 1..Len(intervals) :
              /\ intervals[i].maxdate # <<>>
              /\ ~(intervals[i].mindate > intervals[i].maxdate[1])
\* lines 287-292: the assertion on the pairs, made in the dated mode only
OutOfOrder(intervals, nd) ==
    ~nd /\ \E i \in 1..Len(intervals) :
              /\ ~IsNone(intervals[i].maxdate)
              /\ ~(intervals[i].mindate < Get(intervals[i].maxdate))

\* the assertion with a bound one too high
ConflictingModesAbove(hc, bs) == hc /\ bs > 2
\* lines 324-328
HaveConfint(confint) == confint = "wald"
ConflictingModes(hc, bs) == hc /\ bs > 1

\* lines 361-365: range(bootstrap) if bootstrap > 1 else [0]
Replicates(bs) == IF bs > 1 THEN bs ELSE 1

\* lines 356-360
SelectLocation(df, location, nl) ==
    IF nl THEN df
    ELSE LET Keep(r) == r["location"] = location IN FilterRows(df, [ix \in 1..Len(df.rows) |-> Keep(df.rows[ix])])

\* lines 378-388: the rows of the interval
DateSlice(df, interval, nd) ==
    IF nd THEN df
    ELSE IF ~IsNone(interval.maxdate)
         THEN LET Keep(r) == r["date"] >= interval.mindate
                             /\ r["date"] < Get(interval.maxdate)
              IN  FilterRows(df, [ix \in 1..Len(df.rows) |-> Keep(df.rows[ix])])
         ELSE LET Keep(r) == r["date"] >= interval.mindate
              IN  FilterRows(df, [ix \in 1..Len(df.rows) |-> Keep(df.rows[ix])])

\* the slice handed on as it is, no row removed
WindowFilterUnfiltered(df, window_vars) == df
\* lines 392-400
WindowFilter(df, window_vars) ==
    RemoveUninformative(df, Range(window_vars) \cap df.cols)

\* line 413: the design matrix's columns; a KeyError when one is not there
DesignColumns(window_vars) == Range(window_vars) \cup {"undetermined"}
DesignMissing(df, window_vars) == DesignColumns(window_vars) \ df.cols

\* the engine's fitted table: a row for each date of the slice, a column for each
\* variant of the window and for undetermined
Dates(df) == {df.rows[i]["date"] : i \in 1..Len(df.rows)}
Fitted(df, window_vars, location, estimate) ==
    [location |-> location, estimate |-> estimate,
     dates |-> Dates(df), columns |-> DesignColumns(window_vars)]

\* lines 422-442: what one invocation appends
Results(df, window_vars, location, hc) ==
    IF hc THEN << Fitted(df, window_vars, location, "MSE"),
                  Fitted(df, window_vars, location, "Wald_lower"),
                  Fitted(df, window_vars, location, "Wald_upper") >>
    ELSE << Fitted(df, window_vars, location, "") >>


\* lines 453-468: the long rows of the melted results, each with the number of
\* times it occurs; a row is [location, estimate, variant, date]
FoundVar(vl, results) ==
    Range(vl) \cap UNION {results[i].columns : i \in 1..Len(results)}
Melt(results, found_var) ==
    LET keys == UNION {
                  {[location |-> results[i].location, estimate |-> results[i].estimate,
                    variant |-> v, date |-> d] :
                       v \in found_var \cup {"undetermined"}, d \in results[i].dates} :
                  i \in 1..Len(results)}
        N(k) == Cardinality({i \in 1..Len(results) :
                    /\ results[i].location = k.location
                    /\ results[i].estimate = k.estimate
                    /\ k.date \in results[i].dates})
    IN  [k \in keys |-> N(k)]

\* lines 471-519: the aggregated table, a number of rows for each
\* (location, variant, date); sorting it changes no row
AggKey(k) == [location |-> k.location, variant |-> k.variant, date |-> k.date]
Aggregate(flat, bs, hc) ==
    LET keys == {AggKey(k) : k \in DOMAIN flat}
        Rows(a) == SumOver({k \in DOMAIN flat : AggKey(k) = a}, flat)
    IN  IF bs > 1 \/ hc THEN [a \in keys |-> 1]   \* groupby; pivot
        ELSE [a \in keys |-> Rows(a)]             \* as is
\* pivot raises on an index that holds a key twice
PivotFails(flat) == \E k \in DOMAIN flat : flat[k] > 1
ExportColumns(bs, hc) ==
    {"location", "variant", "date", "proportion"}
        \cup (IF bs > 1 \/ hc THEN {"proportionLower", "proportionUpper"} ELSE {})

(* ------------------------------ actions -------------------------------- *)
NoError == [kind |-> "", names |-> {}]
Fail(kind, names) == /\ pc' = "failed"
                     /\ error' = [kind |-> kind, names |-> names]

\* lines 165-199: the location column and the no_loc mode
HandleLocation ==
    /\ pc = "location"
    /\ LET how == LocationFallback(df_tally, no_loc, locations_list)
           Code(r) == r["location_code"]
           First(r) == Get(locations_list)[1]
           Single(r) == "location"
           df1 == CASE how = "code" -> SetCol(df_tally, "location", [ix \in 1..Len(df_tally.rows) |-> Code(df_tally.rows[ix])])
                    [] how = "stamp" -> SetCol(df_tally, "location", [ix \in 1..Len(df_tally.rows) |-> First(df_tally.rows[ix])])
                    [] OTHER -> df_tally
       IN  IF how \in {"raise", "exit"}
           THEN /\ Fail("location: " \o how, {})
                /\ UNCHANGED <<df_tally, locations_list>>
           ELSE /\ pc' = "resolve"
                /\ df_tally' = IF no_loc THEN SetCol(df1, "location", [ix \in 1..Len(df1.rows) |-> Single(df1.rows[ix])]) ELSE df1
                /\ locations_list' = NoLocList(no_loc, locations_list)
                /\ UNCHANGED error
    /\ UNCHANGED <<cfg, no_loc, no_date, variants_list, var_dates, date_intervals,
                   preproc, bootstrap, have_confint, li, b, wi, temp_dfb, rng, draws,
                   twin, calls, all_deconv, deconv_df_agg, output>>

\* the location column is the one read from the input
LocationRead == "location" \in cfg.tally.cols
\* lines 201-210: the locations found in the data, or the given list validated.
\* The second run resolves its own list from the same frame.
ResolveLocations ==
    /\ pc = "resolve"
    /\ IF IsNone(locations_list)
       THEN \E mine \in Orders(ObservedLocations(df_tally, LocationRead)),
               other \in Orders(ObservedLocations(df_tally, LocationRead)) :
                /\ locations_list' = Some(mine)
                /\ twin' = [twin EXCEPT !.locations_list = other]
                /\ pc' = "dates"
                /\ UNCHANGED error
       ELSE IF BadLocations(Get(locations_list), df_tally) # {}
            THEN /\ Fail("bad locations", BadLocations(Get(locations_list), df_tally))
                 /\ UNCHANGED <<locations_list, twin>>
            ELSE /\ pc' = "dates"
                 /\ twin' = [twin EXCEPT !.locations_list = Get(locations_list)]
                 /\ UNCHANGED <<locations_list, error>>
    /\ UNCHANGED <<cfg, df_tally, no_loc, no_date, variants_list, var_dates,
                   date_intervals, preproc, bootstrap, have_confint, li, b, wi,
                   temp_dfb, rng, draws, calls, all_deconv, deconv_df_agg, output>>

\* lines 212-235: the switch to no_date, and the dummy dates
CheckDates ==
    /\ pc = "dates"
    /\ LET nd == no_date \/ NoDates(df_tally)
           Dummy(r) == DummyDate(df_tally, r)
       IN  IF nd /\ "sample" \notin df_tally.cols
           THEN /\ Fail("no sample column", {"sample"})
                /\ no_date' = nd
                /\ UNCHANGED df_tally
           ELSE /\ no_date' = nd
                /\ df_tally' = IF nd THEN SetCol(df_tally, "date", [ix \in 1..Len(df_tally.rows) |-> Dummy(df_tally.rows[ix])]) ELSE df_tally
                /\ pc' = "var_dates"
                /\ UNCHANGED error
    /\ UNCHANGED <<cfg, no_loc, locations_list, variants_list, var_dates,
                   date_intervals, preproc, bootstrap, have_confint, li, b, wi,
                   temp_dfb, rng, draws, twin, calls, all_deconv, deconv_df_agg,
                   output>>

\* lines 237-282: the schedule, and the variants list completed from it
BuildVarDates ==
    /\ pc = "var_dates"
    /\ IF ~IsNone(cfg.variants_dates)
       THEN LET vd == Get(cfg.variants_dates)
                all_var_dates == AllVarDates(vd)
            IN  /\ var_dates' = vd
                /\ IF IsNone(variants_list)
                   THEN \E listed \in Orders(all_var_dates) :
                           variants_list' = Some(listed)
                   ELSE \E not_on_list \in
                              Orders(all_var_dates \ Range(Get(variants_list))) :
                           variants_list' = Some(Get(variants_list) \o not_on_list)
       ELSE LET key == StartKey(no_date, cfg.start_date_null, cfg.start_date)
            IN  IF IsNone(variants_list)
                THEN \E listed \in Orders({cfg.variants_pangolin[k] :
                                               k \in DOMAIN cfg.variants_pangolin}) :
                        /\ variants_list' = Some(listed)
                        /\ var_dates' = << [key |-> key, vars |-> listed] >>
                ELSE /\ variants_list' = variants_list
                     /\ var_dates' = << [key |-> key,
                                          vars |-> Get(variants_list)] >>
    /\ pc' = "intervals"
    /\ UNCHANGED <<cfg, df_tally, no_loc, no_date, locations_list, date_intervals,
                   preproc, bootstrap, have_confint, li, b, wi, temp_dfb, rng, draws,
                   twin, calls, all_deconv, deconv_df_agg, output, error>>

\* lines 284-295: the interval pairs and the check of their order
BuildIntervals ==
    /\ pc = "intervals"
    /\ date_intervals' = DateIntervals(var_dates)
    /\ IF OutOfOrder(DateIntervals(var_dates), no_date)
       THEN Fail("out of order dates", {})
       ELSE pc' = "preprocess" /\ UNCHANGED error
    /\ UNCHANGED <<cfg, df_tally, no_loc, no_date, locations_list, variants_list,
                   var_dates, preproc, bootstrap, have_confint, li, b, wi, temp_dfb,
                   rng, draws, twin, calls, all_deconv, deconv_df_agg, output>>

\* lines 297-309: general_preprocess, then filter_mutations (which does nothing)
Preprocess ==
    /\ pc = "preprocess"
    /\ LET res == general_preprocess(df_tally, Get(variants_list),
                      cfg.variants_pangolin, cfg.variants_not_reported, cfg.to_drop,
                      cfg.start_date, cfg.end_date, no_date, cfg.remove_deletions)
       IN  IF res.ok
           THEN preproc' = res.df /\ pc' = "params" /\ UNCHANGED error
           ELSE Fail("preprocess", {}) /\ UNCHANGED preproc
    /\ UNCHANGED <<cfg, df_tally, no_loc, no_date, locations_list, variants_list,
                   var_dates, date_intervals, bootstrap, have_confint, li, b, wi,
                   temp_dfb, rng, draws, twin, calls, all_deconv, deconv_df_agg,
                   output>>


\* np.random.seed(seed)
Seed(seed) == seed % RandMod

\* the place of the run after the interval wi of replicate b of location li
Advance ==
    IF wi < Len(date_intervals)
    THEN /\ wi' = wi + 1 /\ UNCHANGED <<b, li>> /\ pc' = "window"
    ELSE IF b + 1 < Replicates(bootstrap)
    THEN /\ b' = b + 1 /\ UNCHANGED <<wi, li>> /\ pc' = "replicate"
    ELSE IF li < Len(Get(locations_list))
    THEN /\ li' = li + 1 /\ b' = 0 /\ UNCHANGED wi /\ pc' = "replicate"
    ELSE /\ UNCHANGED <<li, b, wi>> /\ pc' = "post"

\* lines 311-349: the seed and the parameters; bootstrap and confint exclude
\* each other
Params ==
    /\ pc = "params"
    /\ rng' = Seed(cfg.seed)
    /\ twin' = [twin EXCEPT !.rng = Seed(cfg.seed)]
    /\ bootstrap' = cfg.bootstrap
    /\ have_confint' = HaveConfint(cfg.confint)
    /\ IF ConflictingModes(HaveConfint(cfg.confint), cfg.bootstrap)
       THEN Fail("bootstrap and confint", {}) /\ UNCHANGED <<li, b>>
       ELSE /\ UNCHANGED error
            /\ li' = 1 /\ b' = 0
            /\ pc' = IF Len(Get(locations_list)) = 0 THEN "post" ELSE "replicate"
    /\ UNCHANGED <<cfg, df_tally, no_loc, no_date, locations_list, variants_list,
                   var_dates, date_intervals, preproc, wi, temp_dfb, draws, calls,
                   all_deconv, deconv_df_agg, output>>

\* lines 352-371: the current location's rows, resampled when bootstrapping. A
\* location that is a missing cell is a float: writing it (line 354) or taking
\* it as the description of a progress bar (lines 362, 374) raises TypeError
\* before anything is done for it
Resampled(loc_df, x) ==
    LET mutations == Signatures(loc_df)
        c == Choice(x, Len(mutations), Len(mutations))
    IN  [df |-> resample_mutations(loc_df, mutations, c.picks),
         picks |-> c.picks, state |-> c.state]
Replicate ==
    /\ pc = "replicate"
    /\ LET location == Get(locations_list)[li]
           loc_df == SelectLocation(preproc, location, no_loc)
           mine == Resampled(loc_df, rng)
           other_location == twin.locations_list[li]
           other == Resampled(SelectLocation(preproc, other_location, no_loc),
                              twin.rng)
       IN  IF location = NaN
           THEN /\ Fail("location is not text", {NaN})
                /\ UNCHANGED <<temp_dfb, rng, draws, twin, wi>>
           ELSE /\ IF bootstrap > 1
                   THEN /\ temp_dfb' = mine.df
                        /\ rng' = mine.state
                        /\ draws' = draws \cup {[location |-> location, b |-> b,
                                                 picks |-> mine.picks]}
                        /\ twin' = [twin EXCEPT
                                      !.rng = other.state,
                                      !.draws = @ \cup {[location |-> other_location,
                                                         b |-> b,
                                                         picks |-> other.picks]}]
                   ELSE /\ temp_dfb' = loc_df
                        /\ UNCHANGED <<rng, draws, twin>>
                /\ wi' = 1
                /\ pc' = "window"
                /\ UNCHANGED error
    /\ UNCHANGED <<cfg, df_tally, no_loc, no_date, locations_list, variants_list,
                   var_dates, date_intervals, preproc, bootstrap, have_confint, li, b,
                   calls, all_deconv, deconv_df_agg, output>>

\* lines 373-442: one interval of one replicate of one location; the dates of a
\* dated run cannot be compared with a key that is None (line 385)
Window ==
    /\ pc = "window"
    /\ LET location == Get(locations_list)[li]
           window_vars == var_dates[wi].vars
           sliced == DateSlice(temp_dfb, date_intervals[wi], no_date)
           temp_df2 == WindowFilter(sliced, window_vars)
       IN  IF ~no_date /\ date_intervals[wi].mindate = NaT
           THEN /\ Fail("date compared with None", {})
                /\ UNCHANGED <<calls, all_deconv, li, b, wi>>
           ELSE IF Len(sliced.rows) = 0 \/ Len(temp_df2.rows) = 0
           THEN /\ Advance
                /\ UNCHANGED <<calls, all_deconv, error>>
           ELSE IF DesignMissing(temp_df2, window_vars) # {}
           THEN /\ Fail("design matrix column", DesignMissing(temp_df2, window_vars))
                /\ UNCHANGED <<calls, all_deconv, li, b, wi>>
           ELSE /\ calls' = Append(calls, [location |-> location, b |-> b, wi |-> wi,
                                           columns |-> DesignColumns(window_vars),
                                           rows |-> temp_df2.rows])
                /\ all_deconv' = all_deconv
                                   \o Results(temp_df2, window_vars, location,
                                              have_confint)
                /\ Advance
                /\ UNCHANGED error
    /\ UNCHANGED <<cfg, df_tally, no_loc, no_date, locations_list, variants_list,
                   var_dates, date_intervals, preproc, bootstrap, have_confint,
                   temp_dfb, rng, draws, twin, deconv_df_agg, output>>

\* lines 444-527: the results concatenated, melted and aggregated
PostProcess ==
    /\ pc = "post"
    /\ LET flat == Melt(all_deconv, FoundVar(Get(variants_list), all_deconv))
       IN  IF all_deconv = <<>>
           THEN Fail("no results to concatenate", {}) /\ UNCHANGED deconv_df_agg
           ELSE IF have_confint /\ bootstrap <= 1 /\ PivotFails(flat)
           THEN Fail("pivot", {}) /\ UNCHANGED deconv_df_agg
           ELSE IF have_confint /\ IsNone(cfg.scale)
           THEN Fail("confint_params scale", {"scale"}) /\ UNCHANGED deconv_df_agg
           ELSE /\ deconv_df_agg' =
                     Some([columns |-> ExportColumns(bootstrap, have_confint),
                           rows |-> Aggregate(flat, bootstrap, have_confint),
                           logistic |-> have_confint /\ cfg.scale = Some("logit")])
                /\ pc' = "export"
                /\ UNCHANGED error
    /\ UNCHANGED <<cfg, df_tally, no_loc, no_date, locations_list, variants_list,
                   var_dates, date_intervals, preproc, bootstrap, have_confint, li, b,
                   wi, temp_dfb, rng, draws, twin, calls, all_deconv, output>>

\* lines 540-555: a wide column's name: the variant, then _Lower or _Upper
WideName(variant, metric) ==
    CASE metric = "proportion" -> variant
      [] metric = "proportionLower" -> variant \o "_Lower"
      [] metric = "proportionUpper" -> variant \o "_Upper"

\* lines 529-596: the delimited table, long or wide, and the JSON document:
\* update_data[loc][var] = {"timeseriesSummary": [records]}, its key levels the
\* locations, then the variants, each record holding the fields
Dropped == (IF no_loc THEN {"location"} ELSE {}) \cup (IF no_date THEN {"date"} ELSE {})
Export ==
    /\ pc = "export"
    /\ LET agg == Get(deconv_df_agg)
           keys == DOMAIN agg.rows
           wide_fails == cfg.fmt_columns /\ \E k \in keys : agg.rows[k] > 1
           metrics == agg.columns \ {"location", "variant", "date"}
           columns == IF cfg.fmt_columns
                      THEN {"location", "date"}
                             \cup {WideName(k.variant, m) : k \in keys, m \in metrics}
                      ELSE agg.columns
           json_columns == (agg.columns \ {"location", "variant"})
                              \ (IF no_date THEN {"date"} ELSE {})
       IN  IF wide_fails
           THEN Fail("pivot to columns", {}) /\ UNCHANGED output
           ELSE /\ output' = Some(
                     [columns |-> columns \ Dropped,
                      rows |-> agg.rows,
                      json |-> IF cfg.out_json
                               THEN Some([levels |-> <<"location", "variant">>,
                                          locations |-> {k.location : k \in keys},
                                          variants |-> {k.variant : k \in keys},
                                          fields |-> json_columns])
                               ELSE None])
                /\ pc' = "done"
                /\ UNCHANGED error
    /\ UNCHANGED <<cfg, df_tally, no_loc, no_date, locations_list, variants_list,
                   var_dates, date_intervals, preproc, bootstrap, have_confint, li, b,
                   wi, temp_dfb, rng, draws, twin, calls, all_deconv, deconv_df_agg>>

(* --------------------- the script src/deconvolute.py -------------------- *)
\* lines 98-103: the plants of the option or the cities of the configuration,
\* else the plantname values of the table, in order of first appearance
PlantValues(df) == Unique([i \in 1..Len(df.rows) |-> df.rows[i]["plantname"]])
ScriptCities ==
    /\ pc = "cities"
    /\ IF ~IsNone(locations_list)
       THEN pc' = "s_preprocess" /\ UNCHANGED <<locations_list, error>>
       ELSE IF "plantname" \notin df_tally.cols
       THEN Fail("script: no plantname column", {"plantname"})
               /\ UNCHANGED locations_list
       ELSE /\ locations_list' = Some(PlantValues(df_tally))
            /\ pc' = "s_preprocess"
            /\ UNCHANGED error
    /\ UNCHANGED <<cfg, df_tally, no_loc, no_date, variants_list, var_dates,
                   date_intervals, preproc, bootstrap, have_confint, li, b, wi,
                   temp_dfb, rng, draws, twin, calls, all_deconv, deconv_df_agg,
                   output>>

\* lines 105-116: general_preprocess with its default no_date
ScriptPreprocess ==
    /\ pc = "s_preprocess"
    /\ LET res == general_preprocess(df_tally, Get(variants_list),
                      cfg.variants_pangolin, cfg.variants_not_reported, cfg.to_drop,
                      cfg.start_date, cfg.end_date, FALSE, cfg.remove_deletions)
       IN  IF res.ok
           THEN preproc' = res.df /\ pc' = "s_params" /\ UNCHANGED error
           ELSE Fail("preprocess", {}) /\ UNCHANGED preproc
    /\ UNCHANGED <<cfg, df_tally, no_loc, no_date, locations_list, variants_list,
                   var_dates, date_intervals, bootstrap, have_confint, li, b, wi,
                   temp_dfb, rng, draws, twin, calls, all_deconv, deconv_df_agg,
                   output>>

\* lines 118-145: the seed and the parameters, with the same assertion
ScriptParams ==
    /\ pc = "s_params"
    /\ rng' = Seed(cfg.seed)
    /\ twin' = [twin EXCEPT !.rng = Seed(cfg.seed)]
    /\ bootstrap' = cfg.bootstrap
    /\ have_confint' = HaveConfint(cfg.confint)
    /\ IF ConflictingModes(HaveConfint(cfg.confint), cfg.bootstrap)
       THEN Fail("bootstrap and confint", {}) /\ UNCHANGED <<li, b>>
       ELSE /\ UNCHANGED error
            /\ li' = 1 /\ b' = 0
            /\ pc' = IF Len(Get(locations_list)) = 0 THEN "s_post" ELSE "city"
    /\ UNCHANGED <<cfg, df_tally, no_loc, no_date, locations_list, variants_list,
                   var_dates, date_intervals, preproc, wi, temp_dfb, draws, calls,
                   all_deconv, deconv_df_agg, output>>

\* the place of the script after replicate b of city li
ScriptAdvance ==
    IF b + 1 < Replicates(bootstrap)
    THEN /\ b' = b + 1 /\ UNCHANGED li /\ pc' = "city"
    ELSE IF li < Len(Get(locations_list))
    THEN /\ li' = li + 1 /\ b' = 0 /\ pc' = "city"
    ELSE /\ UNCHANGED <<li, b>> /\ pc' = "s_post"

\* lines 146-191: one replicate of one city: its rows, resampled when
\* bootstrapping, handed to the engine with no check that there are any. What
\* the engine does with a frame without rows is not in this repository: it
\* fails, or it gives a table without dates. A city that is a missing cell is a
\* float: tqdm.write(city) (line 148) or trange(desc=city) (line 152) raises
\* TypeError before anything is done for it.
ScriptCity ==
    /\ pc = "city"
    /\ LET city == Get(locations_list)[li]
           Keep(r) == r["plantname"] = city
           temp_df == FilterRows(preproc, [ix \in 1..Len(preproc.rows) |->
                                              Keep(preproc.rows[ix])])
           drawn == Resampled(temp_df, rng)
           temp_df2 == IF bootstrap > 1 THEN drawn.df ELSE temp_df
           missing == DesignMissing(preproc, Get(variants_list))
       IN  IF city = NaN
           THEN /\ Fail("script: city is not text", {NaN})
                /\ UNCHANGED <<temp_dfb, rng, draws, twin, calls, all_deconv, li, b>>
           ELSE IF "plantname" \notin preproc.cols
           THEN /\ Fail("script: no plantname column", {"plantname"})
                /\ UNCHANGED <<temp_dfb, rng, draws, twin, calls, all_deconv, li, b>>
           ELSE /\ temp_dfb' = temp_df2
                /\ IF bootstrap > 1
                   THEN /\ rng' = drawn.state
                        /\ draws' = draws \cup {[location |-> city, b |-> b,
                                                 picks |-> drawn.picks]}
                        /\ twin' = [twin EXCEPT
                                      !.rng = drawn.state,
                                      !.draws = @ \cup {[location |-> city, b |-> b,
                                                         picks |-> drawn.picks]}]
                   ELSE UNCHANGED <<rng, draws, twin>>
                /\ IF missing # {}
                   THEN /\ Fail("script: design matrix column", missing)
                        /\ UNCHANGED <<calls, all_deconv, li, b>>
                   ELSE /\ calls' = Append(calls,
                                       [location |-> city, b |-> b, wi |-> 0,
                                        columns |-> DesignColumns(Get(variants_list)),
                                        rows |-> temp_df2.rows])
                        /\ \/ /\ all_deconv' = all_deconv
                                    \o Results(temp_df2, Get(variants_list), city,
                                               have_confint)
                              /\ ScriptAdvance
                              /\ UNCHANGED error
                           \/ /\ Len(temp_df2.rows) = 0
                              /\ Fail("script: engine on a frame without rows", {})
                              /\ UNCHANGED <<all_deconv, li, b>>
    /\ UNCHANGED <<cfg, df_tally, no_loc, no_date, locations_list, variants_list,
                   var_dates, date_intervals, preproc, bootstrap, have_confint, wi,
                   deconv_df_agg, output>>

\* lines 193-215: the results concatenated, melted over the variants list and
\* written as they are, the dates as the unnamed index column
ScriptColumns(hc) ==
    {"", "city", "variant", "frac"} \cup (IF hc THEN {"estimate"} ELSE {})
ScriptExport ==
    /\ pc = "s_post"
    /\ IF all_deconv = <<>>
       THEN Fail("script: no results to concatenate", {}) /\ UNCHANGED output
       ELSE /\ output' = Some([columns |-> ScriptColumns(have_confint),
                               rows |-> Melt(all_deconv, Range(Get(variants_list))),
                               json |-> None])
            /\ pc' = "s_done"
            /\ UNCHANGED error
    /\ UNCHANGED <<cfg, df_tally, no_loc, no_date, locations_list, variants_list,
                   var_dates, date_intervals, preproc, bootstrap, have_confint, li, b,
                   wi, temp_dfb, rng, draws, twin, calls, all_deconv, deconv_df_agg>>

Next ==
    \/ HandleLocation
    \/ ResolveLocations
    \/ CheckDates
    \/ BuildVarDates
    \/ BuildIntervals
    \/ Preprocess
    \/ Params
    \/ Replicate
    \/ Window
    \/ PostProcess
    \/ Export
    \/ ScriptCities
    \/ ScriptPreprocess
    \/ ScriptParams
    \/ ScriptCity
    \/ ScriptExport


(* ------------------------------ the inputs ----------------------------- *)
\* the variant map of the inputs, and one that names a canonical name twice
Pangolin ==
    [c \in {"B.1.1.7", "B.1.617.2", "BA.1"} |->
        CASE c = "B.1.1.7" -> "Alpha" [] c = "B.1.617.2" -> "Delta"
          [] OTHER -> "Omicron"]
PangolinTwice ==
    [c \in {"B.1.1.7", "B.1.617.2", "BA.1"} |->
        CASE c = "B.1.1.7" -> "Alpha" [] OTHER -> "Delta"]

RawCols == {"sample", "location", "date", "pos", "base", "frac",
            "B.1.1.7", "B.1.617.2", "BA.1"}
RawRow(sample, location, date, pos, base, frac, t1, t2, t3) ==
    [c \in RawCols |->
        CASE c = "sample" -> sample [] c = "location" -> location
          [] c = "date" -> date [] c = "pos" -> pos [] c = "base" -> base
          [] c = "frac" -> frac [] c = "B.1.1.7" -> t1 [] c = "B.1.617.2" -> t2
          [] OTHER -> t3]

\* the dates of the rows and the keys of the schedules, around 2020-01-01
Early == DefaultStart - 6
Key1 == DefaultStart + 2
Day1 == DefaultStart + 4
Key2 == DefaultStart + 10
Day2 == DefaultStart + 14

\* the rows the input tables are made of
Pool == <<
    RawRow("s1", "L1", Day1, 10, "T", 3, "mut", NaN, NaN),
    RawRow("s2", "L1", Day2, 11, "G", 1, NaN, "mut", "subset"),
    RawRow("s3", "L2", Day1, 10, "T", FracDen, "extra", NaN, NaN),
    RawRow("s4", "L2", Day2, 12, "-", 2, NaN, "shared", NaN),
    RawRow("s5", NaN, Day1, 13, "A", 0, "mut", "revert", NaN),
    RawRow("s1", "L1", NaT, 14, "C", 1, NaN, NaN, "mut"),
    RawRow("s2", "L2", Early, 15, "G", 2, "mut", NaN, NaN),
    RawRow("s3", "L1", Day1, 16, "T", NaT, "mut", "mut", "mut") >>

\* the rows of Pool at the indices of S, in order
RECURSIVE Pick(_, _)
Pick(S, i) ==
    IF i > Len(Pool) THEN <<>>
    ELSE (IF i \in S THEN <<Pool[i]>> ELSE <<>>) \o Pick(S, i + 1)
Tables ==
    {[cols |-> RawCols, rows |-> Pick(S, 1)] :
        S \in {T \in SUBSET (1..Len(Pool)) : Cardinality(T) <= MaxRows}}

\* a table without some columns, or with location_code for location
Without(df, names) == DropCols(df, names)
WithCode(df) ==
    LET Loc(r) == r["location"]
    IN  DropCols(SetCol(df, "location_code", [ix \in 1..Len(df.rows) |-> Loc(df.rows[ix])]), {"location"})
Schemas(df) ==
    { Without(df, {"location"}), WithCode(df), Without(df, {"date"}),
      Without(df, {"sample"}), Without(df, {"pos", "base"}),
      Without(df, {"frac"}) }

\* the schedules: ascending keys, descending keys, a variant with no column
Ascending == << [key |-> Key1, vars |-> <<"Alpha", "Delta">>],
                [key |-> Key2, vars |-> <<"Alpha", "Delta", "Omicron">>] >>
Descending == << [key |-> Key2, vars |-> <<"Alpha", "Delta">>],
                 [key |-> Key1, vars |-> <<"Delta", "Omicron">>] >>
Unseen == << [key |-> Key1, vars |-> <<"Alpha", "Delta">>],
             [key |-> Key2, vars |-> <<"Alpha", "Delta", "Eta">>] >>

BaseCfg ==
    [command |-> "cli", plant |-> <<>>, cities_list |-> None,
     variants_pangolin |-> Pangolin,
     variants_list |-> Some(<<"Alpha", "Delta", "Omicron">>),
     variants_not_reported |-> {},
     to_drop |-> {},
     no_date |-> FALSE, no_loc |-> FALSE,
     start_date |-> None, end_date |-> None, start_date_null |-> FALSE,
     remove_deletions |-> TRUE,
     locations_list |-> None, loc |-> <<>>,
     variants_dates |-> None,
     bootstrap |-> 0, confint |-> "null", scale |-> Some("logit"),
     seed |-> 1, fmt_columns |-> FALSE, out_json |-> FALSE,
     tally |-> EmptyFrame]

\* the modes of a run against each other
ModeInputs ==
    {[BaseCfg EXCEPT !.no_loc = nl, !.no_date = nd, !.loc = l[1],
                     !.locations_list = l[2], !.variants_dates = vd,
                     !.bootstrap = m[1], !.confint = m[2], !.tally = t] :
        nl \in BOOLEAN, nd \in BOOLEAN,
        l \in {<<<<>>, None>>, <<<<"L1">>, Some(<<"L2", "L1">>)>>,
               <<<<>>, Some(<<"L2", "L1">>)>>},
        vd \in {None, Some(Ascending), Some(Descending)},
        m \in {<<0, "null">>, <<MaxBootstrap, "null">>,
               <<0, "wald">>, <<MaxBootstrap, "wald">>},
        t \in Tables}

\* the arguments of the preprocessing
PreprocessInputs ==
    {[BaseCfg EXCEPT !.variants_pangolin = vp, !.variants_list = vl,
                     !.variants_not_reported = nr, !.to_drop = td,
                     !.start_date = sd, !.end_date = ed,
                     !.remove_deletions = rd, !.tally = t] :
        vp \in {Pangolin},
        vl \in {None, Some(<<"Alpha", "Delta">>), Some(<<"Alpha", "Delta", "Eta">>)},
        nr \in {{}, {"Omicron"}}, td \in {{}, {"subset"}},
        sd \in {None, Some(Key1)}, ed \in {None, Some(Key2)},
        rd \in BOOLEAN, t \in Tables}

\* tables that lack a column, with a list of locations (one of them naming a
\* location twice), exported long or wide and as JSON
SchemaInputs ==
    {[BaseCfg EXCEPT !.no_loc = nl, !.no_date = nd, !.loc = l,
                     !.fmt_columns = fc, !.out_json = TRUE, !.tally = t] :
        nl \in BOOLEAN, nd \in BOOLEAN,
        l \in {<<>>, <<"L1">>, <<"L1", "L2">>, <<"L1", "L1">>},
        fc \in BOOLEAN,
        t \in UNION {Schemas(df) : df \in Tables}}

\* the remaining options: schedule with an unseen variant, seed, scale, formats
OptionInputs ==
    {[BaseCfg EXCEPT !.variants_dates = vd, !.bootstrap = m[1], !.confint = m[2],
                     !.scale = sc, !.seed = sd, !.fmt_columns = o[1],
                     !.out_json = o[2], !.tally = t] :
        vd \in {None, Some(Unseen)},
        m \in {<<1, "null">>, <<MaxBootstrap, "null">>, <<0, "wald">>},
        sc \in {None, Some("linear")}, sd \in {1, 2},
        o \in {<<FALSE, TRUE>>, <<TRUE, FALSE>>}, t \in Tables}

\* a variant map that names a canonical name twice
MapInputs == {[BaseCfg EXCEPT !.variants_pangolin = PangolinTwice, !.tally = t] :
                 t \in Tables}

\* the script's runs: tables with plantname for location, or with neither
WithPlant(df) ==
    LET Loc(r) == r["location"]
    IN  DropCols(SetCol(df, "plantname", [ix \in 1..Len(df.rows) |-> Loc(df.rows[ix])]), {"location"})
ScriptInputs ==
    {[BaseCfg EXCEPT !.command = "script", !.plant = p[1], !.cities_list = p[2],
                     !.variants_list = vl, !.bootstrap = m[1], !.confint = m[2],
                     !.tally = t] :
        p \in {<<<<>>, None>>, <<<<"L1">>, Some(<<"L2", "L1">>)>>,
               <<<<>>, Some(<<"L2", "L1">>)>>},
        vl \in {Some(<<"Alpha", "Delta", "Omicron">>), Some(<<"Alpha", "Delta", "Eta">>)},
        m \in {<<0, "null">>, <<MaxBootstrap, "null">>,
               <<0, "wald">>, <<MaxBootstrap, "wald">>},
        t \in {WithPlant(df) : df \in Tables}
                \cup {Without(df, {"location"}) : df \in Tables}}

\* a configuration that holds start_date with no value
NullStartInputs == {[BaseCfg EXCEPT !.start_date_null = TRUE, !.tally = t] :
                       t \in Tables}

Inputs == ModeInputs \cup PreprocessInputs \cup SchemaInputs \cup OptionInputs
             \cup MapInputs \cup NullStartInputs \cup ScriptInputs

\* the run after lines 128-163 of the command line tool, after lines 88-100 of
\* the script: the documents loaded, the tally read
Init ==
    /\ cfg \in Inputs
    /\ pc = IF cfg.command = "cli" THEN "location" ELSE "cities"
    /\ df_tally = cfg.tally
    /\ no_loc = cfg.no_loc
    /\ no_date = cfg.no_date
    /\ locations_list = IF cfg.command = "cli"
                        THEN LocationsOption(cfg.loc, cfg.locations_list)
                        ELSE LocationsOption(cfg.plant, cfg.cities_list)
    /\ variants_list = cfg.variants_list
    /\ var_dates = <<>>
    /\ date_intervals = <<>>
    /\ preproc = EmptyFrame
    /\ bootstrap = 0
    /\ have_confint = FALSE
    /\ li = 0 /\ b = 0 /\ wi = 0
    /\ temp_dfb = EmptyFrame
    /\ rng = 0
    /\ draws = {}
    /\ twin = [locations_list |-> <<>>, rng |-> 0, draws |-> {}]
    /\ calls = <<>>
    /\ all_deconv = <<>>
    /\ deconv_df_agg = None
    /\ output = None
    /\ error = NoError

Spec == Init /\ [][Next]_vars


(* ------------------------------ the claims ----------------------------- *)
\* the places of the run from the loop on
LoopPlaces == {"replicate", "window", "post", "export", "done"}
\* the places of the script from its loop on
ScriptLoopPlaces == {"city", "s_post", "s_done"}
\* the places after the loop
AfterLoop == {"post", "export", "done"}
\* the list of locations the run was given, if any
Allow == LocationsOption(cfg.loc, cfg.locations_list)
\* the run is dated: no_date neither configured nor switched on by the input
DatedRun == ~cfg.no_date /\ ~NoDates(cfg.tally)
\* the preprocessing and the engine have not been reached
NothingComputed == preproc = EmptyFrame /\ calls = <<>> /\ all_deconv = <<>>

\* C1: a run configured with bootstrap > 1 and a confidence estimator never
\* enters the loop: the engine is never invoked, nothing is appended to the
\* result collection, nothing is exported.
C1_ConflictFailsBeforeEngine ==
    (cfg.bootstrap > 1 /\ HaveConfint(cfg.confint)) =>
        /\ pc \notin LoopPlaces \cup ScriptLoopPlaces
        /\ calls = <<>> /\ all_deconv = <<>> /\ output = None
C1_Witness ==
    /\ cfg.bootstrap > 1 /\ HaveConfint(cfg.confint)
    /\ pc = "failed" /\ error.kind = "bootstrap and confint"

\* C2: the preprocessed frame is the surviving rows S followed by one complement
\* row for each of them: signature "-" + signature, frac 1 - frac, every
\* indicator of the variants list inverted, undetermined 1 (0 in S); 2*|S| rows.
IndicatorColumns == Range(Get(variants_list)) \cap preproc.cols
IsComplement(c, r) ==
    /\ c["mutations"] = "-" \o r["mutations"]
    /\ c["frac"] = FracDen - r["frac"]
    /\ \A v \in IndicatorColumns : r[v] \in {0, 1} /\ c[v] = 1 - r[v]
    /\ c["undetermined"] = 1
    /\ \A k \in preproc.cols \ (IndicatorColumns
                                   \cup {"mutations", "frac", "undetermined"}) :
          c[k] = r[k]
C2_ComplementRows ==
    preproc # EmptyFrame =>
        LET rows == preproc.rows
            n == Len(rows) \div 2
        IN  /\ Len(rows) = 2 * n
            /\ \A i \in 1..n :
                 /\ rows[i]["undetermined"] = 0
                 /\ IsComplement(rows[n + i], rows[i])
                 /\ Cardinality({j \in 1..Len(rows) :
                                    IsComplement(rows[j], rows[i])}) = 1
C2_Witness ==
    /\ pc = "params" /\ Len(preproc.rows) = 4
    /\ preproc.rows[1]["frac"] # preproc.rows[3]["frac"]

\* C3: the intervals of an accepted schedule are pairwise disjoint and cover the
\* dates from the earliest key on, and within one location and replicate no row
\* is in the slices of two intervals.
InInterval(d, iv) == d >= iv.mindate /\ (IsNone(iv.maxdate) \/ d < Get(iv.maxdate))
Earliest(ivs) == CHOOSE d \in {ivs[i].mindate : i \in 1..Len(ivs)} :
                    \A i \in 1..Len(ivs) : d <= ivs[i].mindate
C3_Original ==
    pc \in LoopPlaces =>
        /\ \A d \in Earliest(date_intervals)..(Day2 + 1) :
              Cardinality({i \in 1..Len(date_intervals) :
                              InInterval(d, date_intervals[i])}) = 1
        /\ \A i, j \in 1..Len(calls) :
              (i < j /\ calls[i].location = calls[j].location
                     /\ calls[i].b = calls[j].b)
                 => Range(calls[i].rows) \cap Range(calls[j].rows) = {}

\* C4: slices without rows never end the run: with locations to go through, the
\* run does not fail for want of results.
C4_Original ==
    ~(/\ pc = "failed" /\ error.kind = "no results to concatenate"
      /\ Len(Get(locations_list)) > 0)

\* C5: two bootstrap runs with the same seed and inputs give each (location,
\* replicate) the same draws.
C5_Original ==
    (bootstrap > 1 /\ pc \in AfterLoop) => draws = twin.draws

\* C6 as stated: with a list of locations given and a location column in the
\* input, an entry that is not in the data ends the run at the validation,
\* naming it, before preprocessing and any engine call; otherwise the locations
\* gone through are those of the list.
ListHonoured ==
    LET bad == Range(Get(Allow)) \ LocationValues(cfg.tally)
    IN  IF bad # {}
        THEN /\ pc \in {"location", "resolve", "failed"}
             /\ pc = "failed" => error = [kind |-> "bad locations", names |-> bad]
             /\ NothingComputed
        ELSE /\ pc \in LoopPlaces => locations_list = Allow
             /\ pc \in AfterLoop => li = Len(Get(Allow))
             /\ \A i \in 1..Len(calls) : calls[i].location \in Range(Get(Allow))
C6_Original ==
    (~IsNone(Allow) /\ "location" \in cfg.tally.cols) => ListHonoured
\* C6 amended: the same, when no_loc is not set.
C6_ListValidatedWithoutNoLoc ==
    (~IsNone(Allow) /\ "location" \in cfg.tally.cols /\ ~cfg.no_loc) => ListHonoured
C6_Witness ==
    /\ ~IsNone(Allow) /\ "location" \in cfg.tally.cols /\ ~cfg.no_loc
    /\ pc = "failed" /\ error.kind = "bad locations"

\* C7 as stated: with a list of locations and no_loc both configured, the list is
\* the one applied.
LocationsSettled ==
    /\ cfg.command = "cli"
    /\ pc \notin {"location", "resolve"}
    /\ ~(pc = "failed" /\ error.kind \in {"location: raise", "location: exit",
                                          "bad locations"})
C7_Original ==
    (~IsNone(Allow) /\ cfg.no_loc /\ LocationsSettled) => locations_list = Allow
\* C7 amended: no_loc comes first, then the list, then the locations observed:
\* under no_loc every row carries the one location "location", the only one gone
\* through, list or no list; a list is validated and gone through only without
\* no_loc; the observed locations are used only without both. Under no_loc no
\* entry of a list is ever reported as missing from the data.
C7_NoLocThenListThenObserved ==
    /\ (cfg.no_loc /\ pc = "failed" /\ error.kind = "bad locations")
           => error.names = {"location"}
    /\ LocationsSettled =>
        IF cfg.no_loc
        THEN /\ locations_list = Some(<<"location">>)
             /\ \A i \in 1..Len(df_tally.rows) :
                   df_tally.rows[i]["location"] = "location"
        ELSE IF ~IsNone(Allow)
        THEN /\ locations_list = Allow
             /\ BadLocations(Get(Allow), df_tally) = {}
             /\ "location" \in cfg.tally.cols =>
                   \A i \in 1..Len(df_tally.rows) :
                      df_tally.rows[i]["location"] = cfg.tally.rows[i]["location"]
        ELSE Range(Get(locations_list)) = ObservedLocations(df_tally, LocationRead)
C7_Witness ==
    /\ ~IsNone(Allow) /\ cfg.no_loc /\ pc = "dates"
    /\ locations_list = Some(<<"location">>)

\* C8 as stated: a schedule with two adjacent keys not strictly ascending ends
\* the run before preprocessing and before any engine call, whatever the flags.
NonAscending(vd) == \E i \in 1..(Len(vd) - 1) : ~(vd[i].key < vd[i + 1].key)
BadSchedule == ~IsNone(cfg.variants_dates) /\ NonAscending(Get(cfg.variants_dates))
StoppedBeforePreprocess ==
    /\ pc \in {"location", "resolve", "dates", "var_dates", "intervals", "failed"}
    /\ NothingComputed
C8_Original == BadSchedule => StoppedBeforePreprocess
\* C8 amended: the same, of a dated run (no_date neither configured nor
\* switched on because the input has no dates).
C8_DatedRunRejectsBadSchedule == (BadSchedule /\ DatedRun) => StoppedBeforePreprocess
C8_Witness ==
    /\ BadSchedule /\ DatedRun
    /\ pc = "failed" /\ error.kind = "out of order dates"

\* C9: in the no_date mode, configured or switched on, the engine is invoked at
\* most once for each (location, replicate), schedule or no schedule.
C9_Original ==
    (no_date /\ pc \in LoopPlaces) =>
        \A i, j \in 1..Len(calls) :
           (calls[i].location = calls[j].location /\ calls[i].b = calls[j].b)
              => i = j

\* C10: a declared variant without a column in the input never ends the run:
\* every slice with rows is handed to the engine.
DeclaredVariants ==
    (IF IsNone(cfg.variants_list) THEN {} ELSE Range(Get(cfg.variants_list)))
       \cup (IF IsNone(cfg.variants_dates) THEN {}
             ELSE AllVarDates(Get(cfg.variants_dates)))
InputColumns == {NewName(c, cfg.variants_pangolin) : c \in cfg.tally.cols}
C10_Original ==
    (DeclaredVariants \ InputColumns # {}) =>
        ~(pc = "failed" /\ error.kind = "design matrix column")

\* C11: in the long-form table of a run that completes, each
\* (location, variant, date) key is the key of one row only, whatever the
\* aggregation mode, the list of locations and the schedule.
C11_Original ==
    pc = "done" =>
        \A k \in DOMAIN Get(output).rows : Get(output).rows[k] <= 1

\* C12: under no_loc the exported table has no location column and the JSON
\* document no level of location keys; under no_date the exported table has no
\* date column and the JSON records no date field.
C12_Original ==
    pc = "done" =>
        LET out == Get(output)
        IN  /\ no_loc =>
                 /\ "location" \notin out.columns
                 /\ ~IsNone(out.json) => "location" \notin Range(Get(out.json).levels)
            /\ no_date =>
                 /\ "date" \notin out.columns
                 /\ ~IsNone(out.json) => "date" \notin Get(out.json).fields

\* C13: a dated run with no schedule has one window without bounds: at each
\* location the slice of the window is every preprocessed row of the location,
\* whatever its date, start date configured or not.
C13_Original ==
    (DatedRun /\ IsNone(cfg.variants_dates) /\ pc = "window") =>
        /\ Len(date_intervals) = 1
        /\ DateSlice(temp_dfb, date_intervals[wi], no_date).rows = temp_dfb.rows

\* C14: in every design matrix the command line tool hands to the engine each row's indicators over
\* the window's variants sum to more than 0 and to less than the number of those
\* variants; a slice with no such row makes no invocation and appends nothing:
\* every invocation has rows, and every appended result comes from one.
WindowVariants(call) == call.columns \ {"undetermined"}
ResultsPerCall == IF have_confint THEN 3 ELSE 1
C14_DesignRowsInformative ==
    cfg.command = "cli" =>
        /\ \A i \in 1..Len(calls) :
              /\ Len(calls[i].rows) > 0
              /\ \A j \in 1..Len(calls[i].rows) :
                    LET sum == SumOver(WindowVariants(calls[i]), calls[i].rows[j])
                    IN  0 < sum /\ sum < Cardinality(WindowVariants(calls[i]))
        /\ pc \in LoopPlaces => Len(all_deconv) = ResultsPerCall * Len(calls)
C14_Witness ==
    /\ no_date /\ bootstrap <= 1 /\ pc \in LoopPlaces
    /\ \E i \in 1..Len(calls) :
          Len(calls[i].rows)
             < Len(SelectLocation(preproc, calls[i].location, no_loc).rows)

\* C15: with a confidence estimator the bounds go back through the logistic
\* function exactly when the configured scale is logit; with another scale, or
\* none configured, they are exported as they are and the run does not fail.
C15_Original ==
    /\ ~(pc = "failed" /\ error.kind = "confint_params scale")
    /\ (have_confint /\ ~IsNone(deconv_df_agg)) =>
          (Get(deconv_df_agg).logistic <=> cfg.scale = Some("logit"))

\* C16: the recoding of the tags leaves the location, the sample and the
\* signature of every surviving row as they were in the input: each surviving
\* row is a row of the frame handed to the preprocessing, with the same
\* location, sample, position and base, date and frac.
SameObservation(r, q) ==
    /\ \A c \in {"location", "sample", "date", "frac"} \cap preproc.cols : r[c] = q[c]
    /\ r["mutations"] = Str(q["pos"]) \o q["base"]
C16_Original ==
    preproc # EmptyFrame =>
        \A i \in 1..(Len(preproc.rows) \div 2) :
           \E j \in 1..Len(df_tally.rows) :
              SameObservation(preproc.rows[i], df_tally.rows[j])

\* C17: without bootstrap, a row is in a design matrix handed to the engine
\* exactly when its complement is: every observation there has its complement
\* there, and every complement its observation.
C17_ComplementsKeptTogether ==
    bootstrap <= 1 =>
        \A i \in 1..Len(calls) :
           \A j \in 1..Len(calls[i].rows) :
              LET r == calls[i].rows[j]
              IN  IF r["undetermined"] = 0
                  THEN \E k \in 1..Len(calls[i].rows) :
                          IsComplement(calls[i].rows[k], r)
                  ELSE \E k \in 1..Len(calls[i].rows) :
                          IsComplement(r, calls[i].rows[k])
C17_Witness ==
    /\ DatedRun /\ bootstrap <= 1 /\ pc \in LoopPlaces
    /\ \E i \in 1..Len(calls) :
          /\ Len(calls[i].rows) = 2
          /\ Len(SelectLocation(preproc, calls[i].location, no_loc).rows) = 4

=============================================================================
